---- MODULE Spec2Model ----
(***************************************************************************)
(* A model of the kapton_daq acquisition loop (src/daq.py), of its output  *)
(* sink (CSVData, src/utils/logger.py) and of the file-backed shadow       *)
(* device a Control watches (VirtualDevice, src/utils/virtual_device.py).  *)
(*                                                                         *)
(* Time is the wall clock in whole seconds: it advances by the sleeps of   *)
(* the code and by the time an instrument read takes.  Readings are        *)
(* abstracted to their origin: the reading of the j-th probe is the number *)
(* j, the elapsed-time column is the number 0.  A column key               *)
(* "<name> [<unit>]" is abstracted to the string <name>.                   *)
(***************************************************************************)
EXTENDS Integers, Sequences, FiniteSets, TLC

\* ------------------------------------------------------------------ bounds

\* The clock never runs past MaxClock seconds (guards of the sleeping steps).
MaxClock == 66

\* The loop starts at most MaxIter iterations.
MaxIter == 5

\* --------------------------------------------------------- program constants

\* handle_fail: a long backoff every BackoffEvery consecutive failures ...
BackoffEvery == 5

\* ... made of BackoffSlices one-second slices.
BackoffSlices == 60

\* -------------------------------------------------------------- configuration

\* The values an external writer puts in the shadow file of a Control.
ShadowVals == {5, 7}

\* The configurations explored.  probes are the measurement names in
\* declaration order, nctl the number of controlled measurements, max_fails,
\* time (the sampling time, 0: unbounded), rate (the refresh rate) and
\* max_count (the rotation threshold, -1: none) the parameters of DAQ.__init__
\* and parse_config; latency is the longest a successful instrument read
\* takes, in seconds.  The measurements are those of a power supply; the first
\* nctl of them are listed under `controls`; value is the initial `value` of
\* the first measurement, << >> when the configuration gives none.
\* instruments are the entries of the `instruments` map: the type of each,
\* whether InstrumentKit has its make and model, and whether the class has an
\* open_<protocol> method for its `comm` type.

\* initialize_probes, line 123
inst_types == {"instrument", "multimeter", "power_supply", "virtual"}

PowerSupply == [type |-> "power_supply", model |-> TRUE, comm |-> TRUE]

BadInstruments ==
    [type : {"oscilloscope"}, model : BOOLEAN, comm : BOOLEAN]
    \cup [type : {"multimeter", "power_supply"}, model : {FALSE}, comm : BOOLEAN]
    \cup [type : {"multimeter", "power_supply"}, model : {TRUE}, comm : {FALSE}]

CfgTiming ==
    [probes : {<<"a">>}, nctl : {0}, max_fails : {1}, latency : {0, 1},
     time : {0, 2, 3}, rate : {0, 1, 2, 3}, max_count : {-1}, value : {<< >>},
     instruments : {<<PowerSupply>>}]

CfgRotation ==
    [probes : {<<"a">>}, nctl : {0}, max_fails : {1}, latency : {0, 1},
     time : {0}, rate : {0, 1}, max_count : {3}, value : {<< >>},
     instruments : {<<PowerSupply>>}]

CfgProbes ==
    [probes : {<< >>, <<"a">>, <<"a", "b">>, <<"a", "a">>}, nctl : {0},
     max_fails : {1, 2, 3}, latency : {0},
     time : {0}, rate : {0}, max_count : {-1}, value : {<< >>},
     instruments : {<<PowerSupply>>}]

CfgControls ==
    [probes : {<<"a">>}, nctl : {1}, max_fails : {1}, latency : {0},
     time : {0}, rate : {0}, max_count : {-1}, value : {<< >>},
     instruments : {<<PowerSupply>>}]
    \cup
    [probes : {<<"a">>}, nctl : {1}, max_fails : {2}, latency : {0},
     time : {2}, rate : {1}, max_count : {-1}, value : {<< >>},
     instruments : {<<PowerSupply>>}]

CfgBackoff ==
    [probes : {<<"a">>}, nctl : {0}, max_fails : {5, 6}, latency : {0},
     time : {0}, rate : {0, 1}, max_count : {-1}, value : {<< >>},
     instruments : {<<PowerSupply>>}]

CfgSetup ==
    [probes : {<<"a">>}, nctl : {0, 1}, max_fails : {1}, latency : {0},
     time : {1}, rate : {1}, max_count : {-1}, value : {<<0>>, <<5>>},
     instruments : {<<PowerSupply>>}]

\* Configurations with an entry that cannot be set up: after zero or one good
\* instrument, one of an unsupported type, of a model InstrumentKit does not
\* have, or with a protocol the instrument class cannot open.
CfgInvalid ==
    [probes : {<<"a">>}, nctl : {0}, max_fails : {1}, latency : {0},
     time : {0}, rate : {0}, max_count : {-1}, value : {<< >>},
     instruments : {<<x>> : x \in BadInstruments}
                   \cup {<<PowerSupply, x>> : x \in BadInstruments}]

\* A refresh rate below zero.
CfgRefresh ==
    [probes : {<<"a">>}, nctl : {0}, max_fails : {1}, latency : {0},
     time : {0, 2}, rate : {-1}, max_count : {-1}, value : {<< >>},
     instruments : {<<PowerSupply>>}]

Configs ==
    CfgTiming \cup CfgRotation \cup CfgProbes \cup CfgControls \cup CfgBackoff
    \cup CfgSetup \cup CfgInvalid \cup CfgRefresh

\* -------------------------------------------------------------------- helpers

\* ceil(a / b) for a >= 0, b > 0
CeilDiv(a, b) == (a + b - 1) \div b

\* initialize_probes: the column keys, "time" first, then one per measurement.
data_keys(probes) == <<"time">> \o probes

\* ---------------------------------------------------------------- CSVData

\* A CSVData object: _fout is the file name, _str the row format (-1 models
\* None, otherwise the number of '{:f}' slots), _dict an ordered dictionary
\* held as a sequence of [key, val] entries.
\* open tells whether the object holds an open file handle.
CSVData(fout) == [fout |-> fout, str |-> -1, dict |-> << >>, open |-> FALSE]

DictKeys(d) == [j \in 1..Len(d) |-> d[j].key]
DictVals(d) == [j \in 1..Len(d) |-> d[j].val]

\* d[key] = val of a Python dict: an existing key keeps its position.
DictSet(d, key, val) ==
    IF \E j \in 1..Len(d) : d[j].key = key
    THEN [j \in 1..Len(d) |-> IF d[j].key = key THEN [key |-> key, val |-> val] ELSE d[j]]
    ELSE Append(d, [key |-> key, val |-> val])

\* CSVData.record: for i, key in enumerate(keys): self._dict[key] = vals[i]
RECURSIVE CSVrecordFrom(_, _, _, _)
CSVrecordFrom(d, keys, vals, j) ==
    IF j > Len(keys) THEN d
    ELSE CSVrecordFrom(DictSet(d, keys[j], vals[j]), keys, vals, j + 1)

CSVrecord(out, keys, vals) == [out EXCEPT !.dict = CSVrecordFrom(out.dict, keys, vals, 1)]

\* A line of an output file.
HeaderLine(keys) == [kind |-> "header", keys |-> keys, vals |-> << >>]
RowLine(keys, vals) == [kind |-> "row", keys |-> keys, vals |-> vals]

\* CSVData.write with `if self._str is None` left out: the header is written
\* before every row.
CSVwrite_header_each(out, fs) ==
    LET n   == Len(out.dict)
        old == IF out.str = -1 THEN << >> ELSE fs[out.fout]
        row == RowLine(DictKeys(out.dict), DictVals(out.dict))
    IN  [out |-> [out EXCEPT !.str = n, !.open = TRUE],
         files |-> [fs EXCEPT ![out.fout] = old \o <<HeaderLine(DictKeys(out.dict)), row>>]]

\* CSVData.write: the first write opens the file (truncating it) and writes the
\* header, the keys of _dict; every write formats the values of _dict with
\* _str.  The j-th number of a row is the value of the j-th key of _dict.
CSVwrite(out, fs) ==
    LET first == out.str = -1
        n     == IF first THEN Len(out.dict) ELSE out.str
        base  == IF first THEN <<HeaderLine(DictKeys(out.dict))>> ELSE fs[out.fout]
        row   == RowLine(SubSeq(DictKeys(out.dict), 1, n), SubSeq(DictVals(out.dict), 1, n))
    IN  [out |-> [out EXCEPT !.str = n, !.open = TRUE],
         files |-> [fs EXCEPT ![out.fout] = Append(base, row)]]

\* CSVData.close: closes the handle if a write ever opened it.
CSVclose(out) == IF out.str # -1 THEN [out EXCEPT !.open = FALSE] ELSE out

\* ------------------------------------------------------------------ DAQ

\* initialize_output at second t: creates (or truncates) the file named after
\* the timestamp, whose resolution is one second, and makes a new CSVData.
initialize_output(fs, t) ==
    [files |-> IF t \in DOMAIN fs THEN [fs EXCEPT ![t] = << >>] ELSE fs @@ (t :> << >>),
     out   |-> CSVData(t)]

\* DAQ.record: CSVData.record with the data keys, then write (and flush).
record(out, fs, keys, vals) == CSVwrite(CSVrecord(out, keys, vals), fs)

\* handle_fail without its fatal branch: it always asks for another attempt.
handle_fail_forgiving(fail_count, max_fails) ==
    IF fail_count # 0 /\ fail_count % BackoffEvery = 0 THEN "backoff" ELSE "retry"

\* handle_fail with `fail_count > self._max_fails` for the fatal test.
handle_fail_late(fail_count, max_fails) ==
    IF fail_count > max_fails THEN "fatal"
    ELSE IF fail_count # 0 /\ fail_count % BackoffEvery = 0 THEN "backoff"
    ELSE "retry"

\* handle_fail with the test of the long backoff before the fatal test.
handle_fail_backoff_first(fail_count, max_fails) ==
    IF fail_count # 0 /\ fail_count % BackoffEvery = 0 THEN "backoff"
    ELSE IF fail_count = max_fails THEN "fatal"
    ELSE "retry"

\* handle_fail after the error lines are logged: what it does on the
\* fail_count-th consecutive failure.
handle_fail(fail_count, max_fails) ==
    IF fail_count = max_fails THEN "fatal"
    ELSE IF fail_count # 0 /\ fail_count % BackoffEvery = 0 THEN "backoff"
    ELSE "retry"

\* get_update reporting an update whenever the value is not the initial 0:
\* level-triggered.
get_update_level(fileval, lastval) == [value |-> fileval, updated |-> fileval # 0]

\* VirtualDevice.get_update: the last row of the file, and whether it differs
\* from the value last stored in _meas_vals.
get_update(fileval, lastval) == [value |-> fileval, updated |-> fileval # lastval]

\* pandas' iloc[-1] of the column: the last row of the shadow file.
last_row(rows) == rows[Len(rows)]

\* `df[name].iloc[-1] = value; df.to_csv(...)` of VirtualDevice.set and of
\* Controller.set: the file as rewritten, its last row replaced by the value.
set_last_row(rows, v) == [rows EXCEPT ![Len(rows)] = v]

\* VirtualDevice.__init__: the file is created with one row of zeros, and
\* _meas_vals holds zeros.
VirtualDevice == [rows |-> <<0>>, last |-> 0]

\* VirtualDevice.set: only writes when the value differs from _meas_vals.
VirtualDevice_set(dev, v) ==
    IF v # dev.last THEN [rows |-> set_last_row(dev.rows, v), last |-> v] ELSE dev

\* Setting up an instrument with every entry taken as it comes.
setup_error_lenient(x) == "none"

\* initialize_probes, lines 133-151, for one entry of `instruments`: the
\* ValueError it raises, "none" when the instrument is set up.  A virtual
\* instrument has no class to look up and no link to open.
setup_error(x) ==
    IF x.type = "virtual" THEN "none"
    ELSE IF x.type \notin inst_types THEN "type"
    ELSE IF ~x.model THEN "model"
    ELSE IF ~x.comm THEN "protocol"
    ELSE "none"

\* initialize_probes, line 129: the loop over the instruments ends at the
\* first error, which leaves DAQ.__init__ and the script.
RECURSIVE first_error(_)
first_error(xs) ==
    IF xs = << >> THEN "none"
    ELSE IF setup_error(Head(xs)) # "none" THEN setup_error(Head(xs))
    ELSE first_error(Tail(xs))

\* initialize_probes with the initial value written to the instrument only.
initialize_probes_noshadow(c) ==
    LET given(j) == j = 1 /\ c.value # << >>
    IN  [inst  |-> [j \in 1..Len(c.probes) |->
                      IF given(j) /\ j <= c.nctl THEN c.value[1] ELSE 0],
         vinst |-> [k \in 1..c.nctl |-> VirtualDevice]]

\* initialize_probes, lines 168-182, for the measurements of a power supply:
\* what the instrument was set to at setup (0: nothing was written to it) and
\* the shadow device of each control.  The initial value is written, to the
\* instrument and to the shadow, inside `if k in i['controls']`.
initialize_probes(c) ==
    LET given(j) == j = 1 /\ c.value # << >>
    IN  [inst  |-> [j \in 1..Len(c.probes) |->
                      IF given(j) /\ j <= c.nctl THEN c.value[1] ELSE 0],
         vinst |-> [k \in 1..c.nctl |->
                      IF given(k) THEN VirtualDevice_set(VirtualDevice, c.value[1])
                      ELSE VirtualDevice]]

\* log_progress with the five-minute boundary stored for the minutes.
log_progress_boundary(time, delta_t, perc_count, min_count) ==
    IF time # 0 /\ (10 * delta_t) \div time > perc_count
    THEN [perc |-> (10 * delta_t) \div time, min |-> min_count, logged |-> TRUE]
    ELSE IF time = 0 /\ 5 * (delta_t \div 300) > min_count
    THEN [perc |-> perc_count, min |-> delta_t \div 300, logged |-> TRUE]
    ELSE [perc |-> perc_count, min |-> min_count, logged |-> FALSE]

\* log_progress, lines 208-225: the new (perc_count, min_count), and whether a
\* message was logged.  The elapsed time is a difference of two clock
\* readings and the quotients by the sampling time are taken as exact.
log_progress(time, delta_t, perc_count, min_count) ==
    IF time # 0 /\ (10 * delta_t) \div time > perc_count
    THEN [perc |-> (10 * delta_t) \div time, min |-> min_count, logged |-> TRUE]
    ELSE IF time = 0 /\ 5 * (delta_t \div 300) > min_count
    THEN [perc |-> perc_count, min |-> delta_t \div 60, logged |-> TRUE]
    ELSE [perc |-> perc_count, min |-> min_count, logged |-> FALSE]

\* The loop condition without its test of the termination flag.
loop_condition_nokill(time, elapsed, kill) == time = 0 \/ elapsed < time

\* The loop condition with `<=` for `<`.
loop_condition_le(time, elapsed, kill) == (time = 0 \/ elapsed <= time) /\ ~kill

\* The loop condition of run (line 318).
loop_condition(time, elapsed, kill) == (time = 0 \/ elapsed < time) /\ ~kill

\* The rotation condition of run (line 321).
rotation_due(max_count, ite) == max_count > 0 /\ ite % max_count = 0

\* `if not readings` (line 327): None and the empty list are both falsy.
not_readings(none, vals) == none \/ vals = << >>

\* `continue` in the place of `break`: the cycle is skipped, the loop goes on.
on_no_readings_continue == "sleep"

\* run, lines 327-328: where the loop goes when acquire returned no readings.
on_no_readings == "exit"

\* ------------------------------------------------------------------ state

VARIABLES
    cfg,          \* the configuration, fixed for the run
    pc,           \* where the single thread of run() stands
    now,          \* the wall clock, in seconds
    kill_now,     \* Killer.kill_now
    init_time, curr_time, delta_t,
    ite_count, perc_count, min_count,
    p, i,         \* acquire / update_controls: operation index, attempt index
    slice,        \* handle_fail: slices of the long backoff already slept
    ret,          \* handle_fail: the loop it returns to
    readings,     \* acquire: the readings so far, as [probe, val]
    acq_none,     \* acquire returned None
    value,        \* update_controls: the shadow value read
    slept,        \* seconds of the refresh sleep already slept
    output,       \* self._output, a CSVData
    files,        \* the output files on disk: name -> lines
    vfile,        \* per control, the rows of its shadow file (<< >>: the
                  \* file is open for writing and still empty)
    wpend,        \* per control, the rows an external writer is about to
                  \* write (<< >>: none)
    torn,         \* a shadow read found the file empty, in mid-write
    craised,      \* per control, shadow reads and instrument writes that
                  \* raised in this cycle
    clogged,      \* per control, those of them handle_fail logged
    meas_vals,    \* per control, VirtualDevice._meas_vals
    inst,         \* per measurement, the value last set on the instrument
    status,       \* the terminal status line logged ("" before)
    fatal,        \* number of fatal lines logged
    raised,       \* per probe, reads that raised in this cycle
    logged,       \* per probe, failures logged by handle_fail in this cycle
    obs,          \* per control, the shadow values read, in order
    wr,           \* per control, the values the instrument took, in order
    sig,          \* where the signal arrived and what happened since
    rows_written, \* rows written to any sink
    exhausted,    \* "probe" / "control" once one exhausted its retries
    ideal,        \* no read took time and no operation failed so far
    conv,         \* a call of _convert_units under study
    prog,         \* a sequence of calls of log_progress under study
    ctrl,         \* the controller script (controller.py), a process of its own
    vdev,         \* a VirtualDevice under study, with its file
    dash          \* the dashboard (live/callbacks.py) and the processes it runs

vars == <<cfg, pc, now, kill_now, init_time, curr_time, delta_t, ite_count,
          perc_count, min_count, p, i, slice, ret, readings, acq_none, value,
          slept, output, files, vfile, meas_vals, inst, status, fatal, raised,
          logged, obs, wr, sig, rows_written, exhausted, ideal, wpend, torn,
          craised, clogged, conv, prog, ctrl, vdev, dash>>

loopvars == <<init_time, curr_time, delta_t, ite_count, perc_count, min_count>>
sinkvars == <<output, files, rows_written>>
ctlvars  == <<meas_vals, inst, obs, wr, value>>
acqvars  == <<readings, acq_none, raised, logged>>
shadowvars == <<vfile, wpend>>
failvars == <<torn, craised, clogged>>
sidevars == <<conv, prog, ctrl, vdev, dash>>

\* The value of a side variable whose subject is not under study.
Off == [pc |-> "off"]

NoFails == [read |-> 0, set |-> 0]

NoSig == [where |-> "none", ite |-> 0, secs |-> 0, reads |-> 0, rows |-> 0,
          ctl |-> 0, slept |-> 0]

\* What happened since the signal: seconds elapsed, read attempts, rows
\* written, control operations (shadow reads and instrument writes), seconds
\* of refresh sleep.
Since(secs, reads, rows, ctl, slp) ==
    IF kill_now
    THEN [sig EXCEPT !.secs = @ + secs, !.reads = @ + reads, !.rows = @ + rows,
                     !.ctl = @ + ctl, !.slept = @ + slp]
    ELSE sig

NProbes == Len(cfg.probes)
Zeros(n) == [j \in 1..n |-> 0]

\* The state after DAQ.__init__ with the configuration c: about to run, or
\* "failed" when initialize_probes raised and daq.run() is never reached.
Constructed(c) ==
    /\ cfg = c
    /\ pc = IF first_error(c.instruments) = "none" THEN "start" ELSE "failed"
    /\ now = 0
    /\ kill_now = FALSE
    /\ init_time = 0 /\ curr_time = 0 /\ delta_t = 0
    /\ ite_count = 0 /\ perc_count = 0 /\ min_count = 0
    /\ p = 1 /\ i = 0 /\ slice = 0 /\ ret = "read"
    /\ readings = << >> /\ acq_none = FALSE
    /\ value = 0 /\ slept = 0
    /\ output = CSVData(0)
    /\ files = << >>
    /\ LET setup == initialize_probes(cfg)
       IN  /\ vfile = [k \in 1..cfg.nctl |-> setup.vinst[k].rows]
           /\ meas_vals = [k \in 1..cfg.nctl |-> setup.vinst[k].last]
           /\ inst = setup.inst
    /\ wpend = [k \in 1..cfg.nctl |-> << >>]
    /\ torn = FALSE
    /\ craised = [k \in 1..cfg.nctl |-> NoFails]
    /\ clogged = [k \in 1..cfg.nctl |-> NoFails]
    /\ status = ""
    /\ fatal = 0
    /\ raised = Zeros(Len(cfg.probes))
    /\ logged = Zeros(Len(cfg.probes))
    /\ obs = [k \in 1..cfg.nctl |-> << >>]
    /\ wr = [k \in 1..cfg.nctl |-> << >>]
    /\ sig = NoSig
    /\ rows_written = 0
    /\ exhausted = "none"
    /\ ideal = TRUE

Init ==
    /\ \E c \in Configs : Constructed(c)
    /\ conv = Off /\ prog = Off /\ ctrl = Off /\ vdev = Off /\ dash = Off

\* ---------------------------------------------------------------- actions

\* run, lines 309-317: the first output file, the start time, the Killer.
Start ==
    /\ pc = "start"
    /\ LET o == initialize_output(files, now)
       IN  /\ output' = o.out
           /\ files' = o.files
    /\ init_time' = now /\ curr_time' = now
    /\ ite_count' = 0 /\ perc_count' = 0 /\ min_count' = 0
    /\ kill_now' = FALSE
    /\ pc' = "while"
    /\ UNCHANGED <<cfg, sidevars, failvars, now, delta_t, p, i, slice, ret, acqvars, slept, shadowvars,
                   ctlvars, status, fatal, sig, rows_written, exhausted, ideal>>

\* Killer.exit: SIGINT or SIGTERM sets the flag, at any point of the run.
Signal ==
    /\ pc \notin {"start", "failed", "closed", "crashed"}
    /\ ~kill_now
    /\ kill_now' = TRUE
    /\ sig' = [NoSig EXCEPT !.where = pc, !.ite = ite_count]
    /\ UNCHANGED <<cfg, sidevars, failvars, pc, now, loopvars, p, i, slice, ret, acqvars, slept,
                   sinkvars, shadowvars, ctlvars, status, fatal, exhausted, ideal>>

\* Controller.set, lines 144-146 (an operator or the controller script): the
\* file is read, the last row replaced, and to_csv opens the file for writing,
\* which empties it; the rows are on disk only once to_csv has written them.
\* (A write made between setup and the start of run is one made right after
\* the start: Start does not look at the shadow.)
ExtSet ==
    /\ pc \notin {"start", "failed", "closed", "crashed"}
    /\ \E k \in 1..cfg.nctl, v \in ShadowVals :
          /\ wpend[k] = << >> /\ vfile[k] # << >>
          /\ last_row(vfile[k]) # v
          /\ wpend' = [wpend EXCEPT ![k] = set_last_row(vfile[k], v)]
          /\ vfile' = [vfile EXCEPT ![k] = << >>]
    /\ UNCHANGED <<cfg, sidevars, failvars, pc, now, kill_now, loopvars, p, i, slice, ret,
                   acqvars, slept, sinkvars, ctlvars, status, fatal, sig,
                   exhausted, ideal>>

\* Controller.set, line 146: to_csv writes the rows and closes the file.
ExtWrite ==
    /\ \E k \in 1..cfg.nctl :
          /\ wpend[k] # << >>
          /\ vfile' = [vfile EXCEPT ![k] = wpend[k]]
          /\ wpend' = [wpend EXCEPT ![k] = << >>]
    /\ UNCHANGED <<cfg, sidevars, failvars, pc, now, kill_now, loopvars, p, i, slice, ret,
                   acqvars, slept, sinkvars, ctlvars, status, fatal, sig,
                   exhausted, ideal>>

\* run, line 318: the loop condition.
LoopTest ==
    /\ pc = "while"
    /\ IF loop_condition(cfg.time, curr_time - init_time, kill_now)
       THEN ite_count < MaxIter /\ pc' = "body"
       ELSE pc' = "exit"
    /\ UNCHANGED <<cfg, sidevars, failvars, now, kill_now, loopvars, p, i, slice, ret, acqvars, slept,
                   sinkvars, shadowvars, ctlvars, status, fatal, sig, exhausted, ideal>>

\* run with update_controls called in the place of acquire: the cycle goes
\* to its controls first.
BeginIteration_controls_first ==
    /\ pc = "body"
    /\ IF rotation_due(cfg.max_count, ite_count)
       THEN LET o == initialize_output(files, now)
            IN  /\ output' = o.out
                /\ files' = o.files
       ELSE UNCHANGED <<output, files>>
    /\ readings' = << >> /\ acq_none' = FALSE
    /\ raised' = Zeros(NProbes) /\ logged' = Zeros(NProbes)
    /\ p' = 1 /\ i' = 0
    /\ pc' = IF cfg.nctl > 0 THEN "ctl_read"
             ELSE IF NProbes = 0 THEN "acquired" ELSE "read"
    /\ UNCHANGED <<cfg, sidevars, failvars, now, kill_now, loopvars, slice, ret, slept, rows_written,
                   shadowvars, ctlvars, status, fatal, sig, exhausted, ideal>>

\* run, lines 321-326: the rotation, then acquire starts on the first probe
\* (and returns at once when there is none).
BeginIteration ==
    /\ pc = "body"
    /\ IF rotation_due(cfg.max_count, ite_count)
       THEN LET o == initialize_output(files, now)
            IN  /\ output' = o.out
                /\ files' = o.files
       ELSE UNCHANGED <<output, files>>
    /\ readings' = << >> /\ acq_none' = FALSE
    /\ raised' = Zeros(NProbes) /\ logged' = Zeros(NProbes)
    /\ p' = 1 /\ i' = 0
    /\ pc' = IF NProbes = 0 THEN "acquired" ELSE "read"
    /\ UNCHANGED <<cfg, sidevars, failvars, now, kill_now, loopvars, slice, ret, slept, rows_written,
                   shadowvars, ctlvars, status, fatal, sig, exhausted, ideal>>

\* acquire without the `break` of line 272: after a reading the loop makes
\* its next attempt on the same probe.
ReadOk_nobreak ==
    /\ pc = "read"
    /\ \E d \in 0..cfg.latency :
          /\ now + d <= MaxClock
          /\ now' = now + d
          /\ ideal' = (ideal /\ d = 0)
          /\ sig' = Since(d, 1, 0, 0, 0)
    /\ readings' = Append(readings, [probe |-> p, val |-> p])
    /\ IF i + 1 < cfg.max_fails
       THEN pc' = "read" /\ i' = i + 1 /\ UNCHANGED p
       ELSE IF p = NProbes
       THEN pc' = "acquired" /\ UNCHANGED <<p, i>>
       ELSE pc' = "read" /\ p' = p + 1 /\ i' = 0
    /\ UNCHANGED <<cfg, sidevars, failvars, kill_now, loopvars, slice, ret, acq_none, raised, logged,
                   slept, sinkvars, shadowvars, ctlvars, status, fatal, exhausted>>

\* acquire with one attempt counter for all the probes of a cycle: the count
\* of a probe that read is carried over to the next.
ReadOk_carry ==
    /\ pc = "read"
    /\ \E d \in 0..cfg.latency :
          /\ now + d <= MaxClock
          /\ now' = now + d
          /\ ideal' = (ideal /\ d = 0)
          /\ sig' = Since(d, 1, 0, 0, 0)
    /\ readings' = Append(readings, [probe |-> p, val |-> p])
    /\ IF p = NProbes
       THEN pc' = "acquired" /\ UNCHANGED <<p, i>>
       ELSE pc' = "read" /\ p' = p + 1 /\ UNCHANGED i
    /\ UNCHANGED <<cfg, sidevars, failvars, kill_now, loopvars, slice, ret, acq_none, raised, logged,
                   slept, sinkvars, shadowvars, ctlvars, status, fatal, exhausted>>

\* acquire, lines 270-272: the read of probe p succeeds, after d seconds.
ReadOk ==
    /\ pc = "read"
    /\ \E d \in 0..cfg.latency :
          /\ now + d <= MaxClock
          /\ now' = now + d
          /\ ideal' = (ideal /\ d = 0)
          /\ sig' = Since(d, 1, 0, 0, 0)
    /\ readings' = Append(readings, [probe |-> p, val |-> p])
    /\ IF p = NProbes
       THEN pc' = "acquired" /\ UNCHANGED <<p, i>>
       ELSE pc' = "read" /\ p' = p + 1 /\ i' = 0
    /\ UNCHANGED <<cfg, sidevars, failvars, kill_now, loopvars, slice, ret, acq_none, raised, logged,
                   slept, sinkvars, shadowvars, ctlvars, status, fatal, exhausted>>

\* acquire, lines 273-275: the read of probe p raises.
ReadRaise ==
    /\ pc = "read"
    /\ raised' = [raised EXCEPT ![p] = @ + 1]
    /\ ideal' = FALSE
    /\ sig' = Since(0, 1, 0, 0, 0)
    /\ IF kill_now
       THEN /\ acq_none' = TRUE /\ pc' = "acquired"
            /\ UNCHANGED <<logged, fatal, exhausted, slice, ret>>
       ELSE /\ logged' = [logged EXCEPT ![p] = @ + 1]
            /\ LET h == handle_fail(i + 1, cfg.max_fails)
               IN  IF h = "fatal"
                   THEN /\ fatal' = fatal + 1 /\ exhausted' = "probe"
                        /\ acq_none' = TRUE /\ pc' = "acquired"
                        /\ UNCHANGED <<slice, ret>>
                   ELSE /\ pc' = h /\ ret' = "read" /\ slice' = 0
                        /\ UNCHANGED <<fatal, exhausted, acq_none>>
    /\ UNCHANGED <<cfg, sidevars, failvars, now, kill_now, loopvars, p, i, readings, slept, sinkvars,
                   shadowvars, ctlvars, status>>

\* handle_fail returned True: `for i in range(self._max_fails)` of the caller
\* goes on with the next attempt.  (A loop that ran out of attempts would fall
\* through to the next probe or control; handle_fail returning False on the
\* max_fails-th failure is what keeps the code from getting there.)
Resume ==
    IF i + 1 < cfg.max_fails
    THEN pc' = ret /\ i' = i + 1 /\ UNCHANGED p
    ELSE IF ret = "read"
    THEN IF p = NProbes
         THEN pc' = "acquired" /\ UNCHANGED <<p, i>>
         ELSE pc' = "read" /\ p' = p + 1 /\ i' = 0
    ELSE IF p = cfg.nctl
         THEN pc' = "sleep" /\ UNCHANGED <<p, i>>
         ELSE pc' = "ctl_read" /\ p' = p + 1 /\ i' = 0

\* handle_fail, lines 258-259: one second, then the caller's loop goes on.
RetrySleep ==
    /\ pc = "retry"
    /\ now < MaxClock
    /\ now' = now + 1
    /\ sig' = Since(1, 0, 0, 0, 0)
    /\ Resume
    /\ UNCHANGED <<cfg, sidevars, failvars, kill_now, loopvars, slice, ret, acqvars, slept, sinkvars,
                   shadowvars, ctlvars, status, fatal, exhausted, ideal>>

\* handle_fail, lines 253-256: one pass of the slice loop of the long backoff.
BackoffSlice ==
    /\ pc = "backoff"
    /\ IF kill_now \/ slice = BackoffSlices
       THEN /\ Resume
            /\ UNCHANGED <<now, slice, sig>>
       ELSE /\ now < MaxClock
            /\ now' = now + 1 /\ slice' = slice + 1
            /\ sig' = Since(1, 0, 0, 0, 0)
            /\ UNCHANGED <<p, i, pc>>
    /\ UNCHANGED <<cfg, sidevars, failvars, kill_now, loopvars, ret, acqvars, slept, sinkvars,
                   shadowvars, ctlvars, status, fatal, exhausted, ideal>>

\* run, lines 327-336: break on no readings, else time-stamp and record the row.
\* (CSVData.record indexes vals by the position of each key: a list of values
\* shorter than the keys raises IndexError, which nothing catches.)
SaveReadings ==
    /\ pc = "acquired"
    /\ IF not_readings(acq_none, readings)
       THEN /\ pc' = on_no_readings
            /\ UNCHANGED <<curr_time, delta_t, sinkvars, sig, p, i>>
       ELSE IF Len(readings) < NProbes
       THEN /\ pc' = "crashed"
            /\ curr_time' = now /\ delta_t' = now - init_time
            /\ UNCHANGED <<sinkvars, sig, p, i>>
       ELSE /\ curr_time' = now /\ delta_t' = now - init_time
            /\ LET vals == <<0>> \o [j \in 1..Len(readings) |-> readings[j].val]
                   w    == record(output, files, data_keys(cfg.probes), vals)
               IN  /\ output' = w.out
                   /\ files' = w.files
            /\ rows_written' = rows_written + 1
            /\ sig' = Since(0, 0, 1, 0, 0)
            /\ p' = 1 /\ i' = 0
            /\ pc' = IF cfg.nctl = 0 THEN "sleep" ELSE "ctl_read"
    /\ slept' = 0
    /\ craised' = [k \in 1..cfg.nctl |-> NoFails]
    /\ clogged' = [k \in 1..cfg.nctl |-> NoFails]
    /\ UNCHANGED <<cfg, sidevars, torn, now, kill_now, init_time, ite_count, perc_count, min_count,
                   slice, ret, acqvars, shadowvars, ctlvars, status, fatal, exhausted,
                   ideal>>

\* update_controls, lines 286-288 and 292: the shadow of control p is read.
CtlReadOk ==
    /\ pc = "ctl_read"
    /\ vfile[p] # << >>
    /\ LET g == get_update(last_row(vfile[p]), meas_vals[p])
       IN  /\ value' = g.value
           /\ meas_vals' = [meas_vals EXCEPT ![p] = g.value]
           /\ obs' = [obs EXCEPT ![p] = Append(@, g.value)]
           /\ IF g.updated
              THEN pc' = "ctl_write" /\ i' = 0 /\ UNCHANGED p
              ELSE IF p = cfg.nctl
              THEN pc' = "sleep" /\ UNCHANGED <<p, i>>
              ELSE pc' = "ctl_read" /\ p' = p + 1 /\ i' = 0
    /\ sig' = Since(0, 0, 0, 1, 0)
    /\ UNCHANGED <<cfg, sidevars, failvars, now, kill_now, loopvars, slice, ret, acqvars, slept,
                   sinkvars, shadowvars, inst, wr, status, fatal, exhausted, ideal>>

\* update_controls, lines 289-291: the shadow read raises; read_csv does so
\* when it finds the file empty (and may for any other reason).
CtlReadRaise ==
    /\ pc = "ctl_read"
    /\ ideal' = FALSE
    /\ torn' = (torn \/ vfile[p] = << >>)
    /\ craised' = [craised EXCEPT ![p].read = @ + 1]
    /\ clogged' = [clogged EXCEPT ![p].read = @ + 1]
    /\ sig' = Since(0, 0, 0, 1, 0)
    /\ LET h == handle_fail(i + 1, cfg.max_fails)
       IN  IF h = "fatal"
           THEN /\ fatal' = fatal + 1 /\ exhausted' = "control"
                /\ pc' = "exit"
                /\ UNCHANGED <<slice, ret>>
           ELSE /\ pc' = h /\ ret' = "ctl_read" /\ slice' = 0
                /\ UNCHANGED <<fatal, exhausted>>
    /\ UNCHANGED <<cfg, sidevars, now, kill_now, loopvars, p, i, acqvars, slept, sinkvars,
                   shadowvars, ctlvars, status>>

\* update_controls, lines 295-297: the instrument takes the value.
CtlWriteOk ==
    /\ pc = "ctl_write"
    /\ inst' = [inst EXCEPT ![p] = value]
    /\ wr' = [wr EXCEPT ![p] = Append(@, value)]
    /\ sig' = Since(0, 0, 0, 1, 0)
    /\ IF p = cfg.nctl
       THEN pc' = "sleep" /\ UNCHANGED <<p, i>>
       ELSE pc' = "ctl_read" /\ p' = p + 1 /\ i' = 0
    /\ UNCHANGED <<cfg, sidevars, failvars, now, kill_now, loopvars, slice, ret, acqvars, slept,
                   sinkvars, shadowvars, meas_vals, obs, value, status, fatal,
                   exhausted, ideal>>

\* update_controls giving a failed instrument write up: the loop goes on to
\* the next control, or to the refresh sleep.
CtlWriteRaise_give_up ==
    /\ pc = "ctl_write"
    /\ ideal' = FALSE
    /\ craised' = [craised EXCEPT ![p].set = @ + 1]
    /\ clogged' = IF kill_now THEN clogged ELSE [clogged EXCEPT ![p].set = @ + 1]
    /\ sig' = Since(0, 0, 0, 1, 0)
    /\ IF p = cfg.nctl
       THEN pc' = "sleep" /\ UNCHANGED <<p, i>>
       ELSE pc' = "ctl_read" /\ p' = p + 1 /\ i' = 0
    /\ UNCHANGED <<cfg, sidevars, torn, now, kill_now, loopvars, acqvars, slept, sinkvars,
                   shadowvars, ctlvars, status, fatal, exhausted, slice, ret>>

\* update_controls, lines 298-300: the instrument write raises.
CtlWriteRaise ==
    /\ pc = "ctl_write"
    /\ ideal' = FALSE
    /\ craised' = [craised EXCEPT ![p].set = @ + 1]
    /\ clogged' = IF kill_now THEN clogged ELSE [clogged EXCEPT ![p].set = @ + 1]
    /\ sig' = Since(0, 0, 0, 1, 0)
    /\ IF kill_now
       THEN /\ pc' = "exit"
            /\ UNCHANGED <<fatal, exhausted, slice, ret>>
       ELSE LET h == handle_fail(i + 1, cfg.max_fails)
            IN  IF h = "fatal"
                THEN /\ fatal' = fatal + 1 /\ exhausted' = "control"
                     /\ pc' = "exit"
                     /\ UNCHANGED <<slice, ret>>
                ELSE /\ pc' = h /\ ret' = "ctl_write" /\ slice' = 0
                     /\ UNCHANGED <<fatal, exhausted>>
    /\ UNCHANGED <<cfg, sidevars, torn, now, kill_now, loopvars, p, i, acqvars, slept, sinkvars,
                   shadowvars, ctlvars, status>>

\* run, line 343: one second of time.sleep(self._rate); a signal handled
\* during the sleep does not shorten it.
SleepTick ==
    /\ pc = "sleep"
    /\ slept < cfg.rate
    /\ now < MaxClock
    /\ now' = now + 1
    /\ slept' = slept + 1
    /\ sig' = Since(1, 0, 0, 0, 1)
    /\ UNCHANGED <<cfg, sidevars, failvars, pc, kill_now, loopvars, p, i, slice, ret, acqvars, sinkvars,
                   shadowvars, ctlvars, status, fatal, exhausted, ideal>>

\* run, line 343: time.sleep raises ValueError for a negative length; nothing
\* catches it.
SleepRaise ==
    /\ pc = "sleep"
    /\ cfg.rate < 0
    /\ pc' = "crashed"
    /\ UNCHANGED <<cfg, sidevars, failvars, now, kill_now, loopvars, p, i, slice, ret, acqvars,
                   slept, sinkvars, shadowvars, ctlvars, status, fatal, sig,
                   exhausted, ideal>>

\* run, lines 346-349: the sleep is over; progress, then the iteration count.
EndIteration ==
    /\ pc = "sleep"
    /\ cfg.rate >= 0
    /\ slept >= cfg.rate
    /\ LET g == log_progress(cfg.time, delta_t, perc_count, min_count)
       IN  perc_count' = g.perc /\ min_count' = g.min
    /\ ite_count' = ite_count + 1
    /\ pc' = "while"
    /\ UNCHANGED <<cfg, sidevars, failvars, now, kill_now, init_time, curr_time, delta_t, p, i, slice,
                   ret, acqvars, slept, sinkvars, shadowvars, ctlvars, status, fatal,
                   sig, exhausted, ideal>>

\* run, lines 352-357: the terminal status line, then the sink is closed.
Exit ==
    /\ pc = "exit"
    /\ status' = IF kill_now THEN "terminated" ELSE "completed"
    /\ output' = CSVclose(output)
    /\ pc' = "closed"
    /\ UNCHANGED <<cfg, sidevars, failvars, now, kill_now, loopvars, p, i, slice, ret, acqvars, slept,
                   files, rows_written, shadowvars, ctlvars, fatal, sig, exhausted,
                   ideal>>

Next ==
    \/ Start \/ Signal \/ ExtSet \/ ExtWrite \/ LoopTest \/ BeginIteration
    \/ ReadOk \/ ReadRaise \/ RetrySleep \/ BackoffSlice \/ SaveReadings
    \/ CtlReadOk \/ CtlReadRaise \/ CtlWriteOk \/ CtlWriteRaise
    \/ SleepTick \/ SleepRaise \/ EndIteration \/ Exit

Spec == Init /\ [][Next]_vars

\* ------------------------------------------------------- the side studies

\* Every variable of the acquisition loop: the controller script and the
\* studies of single functions leave them alone.
daqvars == <<cfg, pc, now, kill_now, init_time, curr_time, delta_t, ite_count,
             perc_count, min_count, p, i, slice, ret, readings, acq_none, value,
             slept, output, files, vfile, meas_vals, inst, status, fatal,
             raised, logged, obs, wr, sig, rows_written, exhausted, ideal,
             wpend, torn, craised, clogged>>

\* The acquisition program while another subject is studied: constructed with
\* one controlled measurement, and not run.
Parked ==
    Constructed([probes |-> <<"a">>, nctl |-> 1, max_fails |-> 1, latency |-> 0,
                 time |-> 1, rate |-> 1, max_count |-> -1, value |-> << >>,
                 instruments |-> <<PowerSupply>>])

\* ------------------------------------------------------------ controller.py

\* The values of --value and --start, and of the device file, are 0..MaxValue.
MaxValue == 3

\* The step sizes of --step are -MaxStep..MaxStep.
MaxStep == 2

\* An optional command line argument: << >> when it was not given (argparse:
\* None), <<x>> when it was given as x.
None == << >>
Given(S) == {None} \cup {<<x>> : x \in S}

abs(x) == IF x < 0 THEN -x ELSE x

\* The command lines explored: --value, --start, --step and --time (in
\* seconds), the last three optional.
Args ==
    [value : 0..MaxValue, start : Given(0..MaxValue),
     step : Given((-MaxStep)..MaxStep), time : Given({0, 1})]

\* `if args.step:` and `if args.time` (lines 97, 103): None and 0 are falsy.
truthy(x) == x # None /\ x[1] # 0

\* Controller.parse_config, lines 95-105, after the device file was found
\* (dev: its last row).  self._time is read at line 103 when --time is not
\* given, and Controller.__init__ never sets it (it sets _step_time): the
\* AttributeError ends the script.  Without --step self._step stays unset
\* (0 here: it is never read).
parse_config(args, dev) ==
    IF truthy(args.step)
    THEN LET start == IF args.start # None THEN args.start[1] ELSE dev
             step  == IF start > args.value THEN -abs(args.step[1])
                      ELSE args.step[1]
         IN  IF truthy(args.time)
             THEN [ok |-> TRUE, _value |-> args.value, _start |-> start + step,
                   _step |-> step]
             ELSE [ok |-> FALSE]
    ELSE [ok |-> TRUE, _value |-> args.value, _start |-> args.value, _step |-> 0]

\* The loop condition of Controller.control (line 157), and the test before
\* the sleep (line 165).
in_range(v, c) == abs(v - c._start) <= abs(c._value - c._start)

\* The script is started with some command line, the device file holding
\* some value (dev0 keeps it, dev is the file as the script rewrites it).
ControllerInit ==
    /\ Parked
    /\ conv = Off /\ prog = Off /\ vdev = Off /\ dash = Off
    /\ \E a \in Args, d \in 0..MaxValue :
          ctrl = [pc |-> "parse", args |-> a, dev |-> d, dev0 |-> d,
                  kill_now |-> FALSE, written |-> << >>]

\* Controller.__init__: parse_config; then control, lines 155-156.
CtrlParse ==
    /\ ctrl.pc = "parse"
    /\ LET c == parse_config(ctrl.args, ctrl.dev)
       IN  ctrl' = IF c.ok
                   THEN [pc |-> "while", args |-> ctrl.args, dev |-> ctrl.dev,
                         dev0 |-> ctrl.dev0, kill_now |-> FALSE, written |-> << >>,
                         _value |-> c._value, _start |-> c._start,
                         _step |-> c._step, value |-> c._start]
                   ELSE [ctrl EXCEPT !.pc = "crashed"]
    /\ UNCHANGED <<daqvars, conv, prog, vdev, dash>>

\* Killer.exit of the controller: SIGINT or SIGTERM once control has
\* installed the handler.
CtrlSignal ==
    /\ ctrl.pc \in {"while", "set", "sleep"}
    /\ ~ctrl.kill_now
    /\ ctrl' = [ctrl EXCEPT !.kill_now = TRUE]
    /\ UNCHANGED <<daqvars, conv, prog, vdev, dash>>

\* control, line 157: the loop test.
CtrlLoopTest ==
    /\ ctrl.pc = "while"
    /\ ctrl' = [ctrl EXCEPT !.pc = IF in_range(ctrl.value, ctrl) /\ ~ctrl.kill_now
                                   THEN "set" ELSE "done"]
    /\ UNCHANGED <<daqvars, conv, prog, vdev, dash>>

\* control, lines 158-166: the value is set (Controller.set rewrites the last
\* row of the device file); the loop ends at the target, or else the value is
\* stepped, and the script sleeps when the next value is still in range.
CtrlSet ==
    /\ ctrl.pc = "set"
    /\ LET next == ctrl.value + ctrl._step
       IN  ctrl' = IF ctrl.value = ctrl._value
                   THEN [ctrl EXCEPT !.pc = "done", !.dev = ctrl.value,
                                     !.written = Append(@, ctrl.value)]
                   ELSE [ctrl EXCEPT !.pc = IF in_range(next, ctrl) THEN "sleep"
                                            ELSE "while",
                                     !.dev = ctrl.value,
                                     !.written = Append(@, ctrl.value),
                                     !.value = next]
    /\ UNCHANGED <<daqvars, conv, prog, vdev, dash>>

\* control, line 166: time.sleep(self._time) returns.
CtrlSleep ==
    /\ ctrl.pc = "sleep"
    /\ ctrl' = [ctrl EXCEPT !.pc = "while"]
    /\ UNCHANGED <<daqvars, conv, prog, vdev, dash>>

ControllerNext ==
    CtrlParse \/ CtrlSignal \/ CtrlLoopTest \/ CtrlSet \/ CtrlSleep

ControllerSpec == ControllerInit /\ [][ControllerNext]_vars

\* ----------------------------------------------------------- _convert_units

\* The magnitudes of the readings converted are the integers -1..MaxMag.
MaxMag == 4

\* Exact fractions <<numerator, denominator>>, in lowest terms, denominator
\* positive: the magnitudes of quantities, free of rounding.
RECURSIVE gcd(_, _)
gcd(a, b) == IF b = 0 THEN a ELSE gcd(b, a % b)

Frac(n, d) ==
    LET g == gcd(abs(n), abs(d))
        s == IF d < 0 THEN -1 ELSE 1
    IN  <<(s * n) \div g, (s * d) \div g>>

FMul(a, b) == Frac(a[1] * b[1], a[2] * b[2])
FDiv(a, b) == Frac(a[1] * b[2], a[2] * b[1])
FAdd(a, b) == Frac(a[1] * b[2] + b[1] * a[2], a[2] * b[2])

\* The units explored (attributes of the quantities package, line 156).
Units == {"mV", "V", "A", "K", "degC", "degF"}

\* quantities: the dimension of a unit ...
dimension(u) ==
    CASE u \in {"mV", "V"} -> "voltage"
      [] u = "A" -> "current"
      [] OTHER -> "temperature"

\* ... and its size in the base unit of the dimension.  The temperature units
\* of quantities are sizes of a degree, without an origin: degC is K, degF is
\* K/1.8.
factor(u) ==
    CASE u = "mV" -> <<1, 1000>>
      [] u = "degF" -> <<5, 9>>
      [] OTHER -> <<1, 1>>

\* `isinstance(units, pq.unitquantity.UnitTemperature)` (line 77)
UnitTemperature(u) == dimension(u) = "temperature"

\* `units != value.units` (line 75): value.units is the quantity 1.0 <unit>,
\* and quantities compares a unit with a quantity by rescaling the quantity
\* to the unit: another dimension or another size is a difference.  degC and
\* K compare as equal.
units_differ(units, vunits) ==
    dimension(units) # dimension(vunits) \/ FDiv(factor(vunits), factor(units)) # <<1, 1>>

\* Quantity.rescale with a unit of one origin too many: the 32 degrees of
\* Fahrenheit are added on the way to degF and not taken off on the way back.
rescale_offset(mag, from, to) ==
    IF dimension(from) # dimension(to) THEN [ok |-> FALSE]
    ELSE [ok |-> TRUE, units |-> to,
          mag |-> IF to = "degF" /\ from # "degF"
                  THEN FAdd(FDiv(FMul(mag, factor(from)), factor(to)), <<32, 1>>)
                  ELSE FDiv(FMul(mag, factor(from)), factor(to))]

\* Quantity.rescale (line 76): the magnitude times the ratio of the sizes of
\* the units; ValueError when the dimensions differ.
rescale(mag, from, to) ==
    IF dimension(from) # dimension(to) THEN [ok |-> FALSE]
    ELSE [ok |-> TRUE, units |-> to,
          mag |-> FDiv(FMul(mag, factor(from)), factor(to))]

\* ik.util_fns.convert_temperature (line 78): between the scales, with their
\* origins (273.15 = 5463/20, 459.67 = 45967/100).
convert_temperature(mag, from, base) ==
    [ok |-> TRUE, units |-> base,
     mag |-> CASE from = base -> mag
               [] from = "degF" /\ base = "degC" ->
                      FMul(FAdd(mag, <<-32, 1>>), <<5, 9>>)
               [] from = "K" /\ base = "degC" -> FAdd(mag, <<-5463, 20>>)
               [] from = "degC" /\ base = "degF" ->
                      FAdd(FMul(mag, <<9, 5>>), <<32, 1>>)
               [] from = "K" /\ base = "degF" ->
                      FAdd(FMul(mag, <<9, 5>>), <<-45967, 100>>)
               [] from = "degF" /\ base = "K" ->
                      FMul(FAdd(mag, <<45967, 100>>), <<5, 9>>)
               [] from = "degC" /\ base = "K" -> FAdd(mag, <<5463, 20>>)]

\* DAQ._convert_units, lines 66-79.  A value is a bare number (quantity
\* FALSE) or a quantity with its units.
_convert_units(v, units) ==
    IF ~v.quantity THEN [ok |-> TRUE, mag |-> v.mag, units |-> units]
    ELSE IF units_differ(units, v.units) THEN rescale(v.mag, v.units, units)
    ELSE IF UnitTemperature(units) THEN convert_temperature(v.mag, v.units, units)
    ELSE [ok |-> TRUE, mag |-> v.mag, units |-> v.units]

\* The readings a probe may return: bare numbers and quantities.
Readings ==
    [quantity : {FALSE}, mag : {<<m, 1>> : m \in -1..MaxMag}]
    \cup [quantity : {TRUE}, mag : {<<m, 1>> : m \in -1..MaxMag}, units : Units]

\* A reading and the unit declared for its probe.
ConvertInit ==
    /\ Parked
    /\ prog = Off /\ ctrl = Off /\ vdev = Off /\ dash = Off
    /\ \E v \in Readings, u \in Units : conv = [pc |-> "in", value |-> v, units |-> u]

\* get_reading, line 239: the reading is converted to the unit of the probe.
Convert ==
    /\ conv.pc = "in"
    /\ conv' = [pc |-> "out", value |-> conv.value, units |-> conv.units,
                out |-> _convert_units(conv.value, conv.units)]
    /\ UNCHANGED <<daqvars, prog, ctrl, vdev, dash>>

\* The converted quantity is converted back to the units it came in.
ConvertBack ==
    /\ conv.pc = "out"
    /\ conv.value.quantity
    /\ conv.out.ok
    /\ conv' = [pc |-> "back", value |-> conv.value, units |-> conv.units,
                out |-> conv.out,
                back |-> _convert_units([quantity |-> TRUE, mag |-> conv.out.mag,
                                         units |-> conv.out.units],
                                        conv.value.units)]
    /\ UNCHANGED <<daqvars, prog, ctrl, vdev, dash>>

ConvertNext == Convert \/ ConvertBack

ConvertSpec == ConvertInit /\ [][ConvertNext]_vars

\* -------------------------------------------------------------- log_progress

\* An unbounded run is followed for MaxElapsed seconds ...
MaxElapsed == 1300

\* ... and a bounded one until Overrun seconds past its sampling time (the
\* elapsed time is taken after the reads of the cycle, and may pass it).
Overrun == 3

\* The sampling times explored (0: unbounded), in seconds.
ProgTimes == {0, 7, 30}

\* The seconds from the elapsed time of one cycle to that of the next.
ProgSteps(time) == IF time = 0 THEN {60, 150, 299, 301} ELSE {1, 2, 4}

\* The boundary the elapsed time d has reached: the decile of the sampling
\* time, or the multiple of five minutes.
boundary(time, d) == IF time # 0 THEN (10 * d) \div time ELSE d \div 300

\* A run starts: nothing was reported (run, line 316).
ProgressInit ==
    /\ Parked
    /\ conv = Off /\ ctrl = Off /\ vdev = Off /\ dash = Off
    /\ \E t \in ProgTimes :
          prog = [pc |-> "run", time |-> t, delta_t |-> 0, perc_count |-> 0,
                  min_count |-> 0, logged |-> FALSE, reported |-> << >>]

\* run, line 346: the call of log_progress at the end of a cycle, with the
\* elapsed time of the cycle; reported keeps the boundary of every message.
LogProgress ==
    /\ prog.pc = "run"
    /\ \E step \in ProgSteps(prog.time) :
          LET d == prog.delta_t + step
              g == log_progress(prog.time, d, prog.perc_count, prog.min_count)
          IN  /\ d <= IF prog.time = 0 THEN MaxElapsed ELSE prog.time + Overrun
              /\ prog' = [prog EXCEPT !.delta_t = d, !.perc_count = g.perc,
                                      !.min_count = g.min, !.logged = g.logged,
                                      !.reported = IF g.logged
                                                   THEN Append(@, boundary(prog.time, d))
                                                   ELSE @]
    /\ UNCHANGED <<daqvars, conv, ctrl, vdev, dash>>

ProgressNext == LogProgress

ProgressSpec == ProgressInit /\ [][ProgressNext]_vars

\* ------------------------------------------------------------ VirtualDevice

\* A device is followed for MaxOps operations.
MaxOps == 5

\* VirtualDevice.get, lines 53-63: the last row of the file.
VirtualDevice_get(dev) == last_row(dev.rows)

\* A device with one measurement was created (VirtualDevice.__init__).  set
\* is <<v>> while set(name, v) is the last thing that happened to the device,
\* got the value a get returned.
DeviceInit ==
    /\ Parked
    /\ conv = Off /\ prog = Off /\ ctrl = Off /\ dash = Off
    /\ vdev = [pc |-> "new", dev |-> VirtualDevice, set |-> << >>, got |-> 0,
               ops |-> 0]

\* VirtualDevice.set(name, v)
DevSet ==
    /\ vdev.pc # "off" /\ vdev.ops < MaxOps
    /\ \E v \in ShadowVals \cup {0} :
          vdev' = [vdev EXCEPT !.pc = "set", !.dev = VirtualDevice_set(@, v),
                               !.set = <<v>>, !.ops = @ + 1]
    /\ UNCHANGED <<daqvars, conv, prog, ctrl, dash>>

\* VirtualDevice.get(name)
DevGet ==
    /\ vdev.pc # "off" /\ vdev.ops < MaxOps
    /\ vdev' = [vdev EXCEPT !.pc = "got", !.got = VirtualDevice_get(vdev.dev),
                            !.ops = @ + 1]
    /\ UNCHANGED <<daqvars, conv, prog, ctrl, dash>>

\* VirtualDevice.get_update(name): the last row, remembered in _meas_vals.
DevGetUpdate ==
    /\ vdev.pc # "off" /\ vdev.ops < MaxOps
    /\ LET g == get_update(last_row(vdev.dev.rows), vdev.dev.last)
       IN  vdev' = [vdev EXCEPT !.pc = "updated", !.dev.last = g.value,
                                !.set = << >>, !.ops = @ + 1]
    /\ UNCHANGED <<daqvars, conv, prog, ctrl, dash>>

\* The device file is edited from outside (Controller.set, or by hand): its
\* last row is replaced.
DevEdit ==
    /\ vdev.pc # "off" /\ vdev.ops < MaxOps
    /\ \E v \in ShadowVals \cup {0} :
          vdev' = [vdev EXCEPT !.pc = "edited", !.dev.rows = set_last_row(@, v),
                               !.set = << >>, !.ops = @ + 1]
    /\ UNCHANGED <<daqvars, conv, prog, ctrl, dash>>

DeviceNext == DevSet \/ DevGet \/ DevGetUpdate \/ DevEdit

DeviceSpec == DeviceInit /\ [][DeviceNext]_vars

\* ---------------------------------------------------------------- dashboard

\* The dashboard is followed for MaxCalls invocations of daq_controller.
MaxCalls == 4

\* What daq_controller returns for its outputs store-daq-id, button-start-daq
\* disabled and button-stop-daq disabled: lines 36 and 52 ...
DaqStarted(pid) ==
    [store |-> <<pid>>, start_disabled |-> TRUE, stop_disabled |-> FALSE]

\* A stop that leaves the identifier of the process in the store.
DaqStopped_keep_pid(d) ==
    [store |-> d.store, start_disabled |-> FALSE, stop_disabled |-> TRUE]

\* ... and lines 48 and 82: `return '', False, True`.
DaqStopped(d) ==
    [store |-> << >>, start_disabled |-> FALSE, stop_disabled |-> TRUE]

\* The outputs of a callback that returned, put into the page.
Returned(d, out) ==
    [d EXCEPT !.pc = "idle", !.store = out.store,
              !.start_disabled = out.start_disabled,
              !.stop_disabled = out.stop_disabled]

\* process_is_live (live/utils.py) for the DAQ process and for the controller
\* process: False for a zombie and for a process that is gone.
daq_is_live(d, pid) == d.daq_pid = pid /\ d.daq \in {"starting", "running"}
cont_is_live(d, pid) == d.cont_pid = pid /\ d.cont = "running"

\* The page as layout.py builds it: nothing stored, start enabled, stop
\* disabled; no process runs and the device directory is empty.  daq is the
\* DAQ process last started (daq_pid its identifier, daq_term: it received
\* SIGTERM, daq_file: it created its output file), cont the controller
\* process; daqpid is the local variable of daq_controller, n the number of
\* its invocations.
DashInit ==
    /\ Parked
    /\ conv = Off /\ prog = Off /\ ctrl = Off /\ vdev = Off
    /\ dash = [pc |-> "idle", store |-> << >>, start_disabled |-> FALSE,
               stop_disabled |-> TRUE, contpid |-> << >>,
               daq |-> "none", daq_pid |-> 0, daq_term |-> FALSE,
               daq_file |-> FALSE,
               cont |-> "none", cont_pid |-> 0, cont_term |-> FALSE,
               devfiles |-> FALSE, daqpid |-> 0, n |-> 0]

\* The page is loaded anew: the stores and the buttons are those of the
\* layout again, the processes go on.
DashReload ==
    /\ dash.pc = "idle"
    /\ dash.store # << >> \/ dash.contpid # << >>
    /\ dash' = [dash EXCEPT !.store = << >>, !.contpid = << >>,
                            !.start_disabled = FALSE, !.stop_disabled = TRUE]
    /\ UNCHANGED <<daqvars, conv, prog, ctrl, vdev>>

\* daq_controller, lines 32-36: nothing is stored and a daq.py process is
\* found.
DashStartFound ==
    /\ dash.pc = "idle" /\ dash.n < MaxCalls
    /\ dash.store = << >>
    /\ daq_is_live(dash, dash.daq_pid)
    /\ dash' = [Returned(dash, DaqStarted(dash.daq_pid)) EXCEPT !.n = @ + 1]
    /\ UNCHANGED <<daqvars, conv, prog, ctrl, vdev>>

\* daq_controller, lines 32-43: nothing is stored, no daq.py process is
\* found, one is started.
DashStartSpawn ==
    /\ dash.pc = "idle" /\ dash.n < MaxCalls
    /\ dash.store = << >>
    /\ ~daq_is_live(dash, dash.daq_pid)
    /\ dash' = [dash EXCEPT !.pc = "wait_file", !.n = @ + 1,
                            !.daq = "starting", !.daq_pid = @ + 1,
                            !.daq_term = FALSE, !.daq_file = FALSE,
                            !.daqpid = dash.daq_pid + 1]
    /\ UNCHANGED <<daqvars, conv, prog, ctrl, vdev>>

\* daq_controller, lines 46-52: the wait for a new data file ends when the
\* file is there, or else when the process is not alive.
DashWaitFile ==
    /\ dash.pc = "wait_file"
    /\ dash.daq_file \/ ~daq_is_live(dash, dash.daqpid)
    /\ dash' = IF dash.daq_file
               THEN Returned(dash, DaqStarted(dash.daqpid))
               ELSE Returned(dash, DaqStopped(dash))
    /\ UNCHANGED <<daqvars, conv, prog, ctrl, vdev>>

\* daq_controller, lines 32-34: find_process raises (a process that goes
\* away while psutil iterates): the callback fails and the page keeps what it
\* shows.
DashRaise ==
    /\ dash.pc = "idle" /\ dash.n < MaxCalls
    /\ dash.store = << >>
    /\ dash' = [dash EXCEPT !.n = @ + 1]
    /\ UNCHANGED <<daqvars, conv, prog, ctrl, vdev>>

\* daq_controller, lines 55-69: a pid is stored.  A stored controller is sent
\* SIGTERM, and `while process_is_live(pid)` (line 60) raises NameError, pid
\* being no name of this function: the bare except swallows it and the
\* controller is not waited for.  Then the DAQ is sent SIGTERM.
DashStop ==
    /\ dash.pc = "idle" /\ dash.n < MaxCalls
    /\ dash.store # << >>
    /\ dash' = [dash EXCEPT
                  !.pc = "wait_daq", !.n = @ + 1, !.daqpid = dash.store[1],
                  !.cont_term = IF dash.contpid # << >>
                                   /\ cont_is_live(dash, dash.contpid[1])
                                THEN TRUE ELSE @,
                  !.daq_term = IF daq_is_live(dash, dash.store[1])
                               THEN TRUE ELSE @]
    /\ UNCHANGED <<daqvars, conv, prog, ctrl, vdev>>

\* daq_controller, lines 69-71: the wait for the DAQ process ends.
DashWaitDaq ==
    /\ dash.pc = "wait_daq"
    /\ ~daq_is_live(dash, dash.daqpid)
    /\ dash' = [dash EXCEPT !.pc = "remove"]
    /\ UNCHANGED <<daqvars, conv, prog, ctrl, vdev>>

\* daq_controller, lines 75-82: the device files are removed.
DashRemove ==
    /\ dash.pc = "remove"
    /\ dash' = [Returned(dash, DaqStopped(dash)) EXCEPT !.devfiles = FALSE]
    /\ UNCHANGED <<daqvars, conv, prog, ctrl, vdev>>

\* daq.py gets as far as its first output file; its virtual devices were
\* created before (DAQ.__init__).
DaqProcFile ==
    /\ dash.daq = "starting"
    /\ dash' = [dash EXCEPT !.daq = "running", !.daq_file = TRUE,
                            !.devfiles = TRUE]
    /\ UNCHANGED <<daqvars, conv, prog, ctrl, vdev>>

\* daq.py ends: its run is over, it failed, or it was signalled.
DaqProcEnd ==
    /\ dash.daq \in {"starting", "running"}
    /\ dash' = [dash EXCEPT !.daq = "dead"]
    /\ UNCHANGED <<daqvars, conv, prog, ctrl, vdev>>

\* device_controller, lines 175-188: a controller is started from the page
\* while a run is shown.
ContStart ==
    /\ dash.pc = "idle" /\ dash.cont_pid < MaxCalls
    /\ ~dash.stop_disabled
    /\ dash.contpid = << >> /\ dash.cont # "running"
    /\ dash' = [dash EXCEPT !.cont = "running", !.cont_pid = @ + 1,
                            !.cont_term = FALSE,
                            !.contpid = <<dash.cont_pid + 1>>]
    /\ UNCHANGED <<daqvars, conv, prog, ctrl, vdev>>

\* controller.py ends: its ramp is over, or it was signalled and its sleep
\* returned.
ContProcEnd ==
    /\ dash.cont = "running"
    /\ dash' = [dash EXCEPT !.cont = "dead"]
    /\ UNCHANGED <<daqvars, conv, prog, ctrl, vdev>>

DashNext ==
    \/ DashReload \/ DashStartFound \/ DashStartSpawn \/ DashWaitFile
    \/ DashRaise \/ DashStop \/ DashWaitDaq \/ DashRemove
    \/ DaqProcFile \/ DaqProcEnd \/ ContStart \/ ContProcEnd

DashSpec == DashInit /\ [][DashNext]_vars

\* ------------------------------------------------------------------ claims

\* The data rows of a file: every line after the first.
DataRows(lines) == IF lines = << >> THEN << >> ELSE Tail(lines)

\* C1 -- Row schema invariant: in every output file the header is the first
\* line and the only header, and every data row written after it carries
\* exactly the header's column keys, in the header's order, with one value per
\* key, however many cycles have run.
C1_RowSchema ==
    \A f \in DOMAIN files :
        LET lines == files[f]
        IN  lines # << >> =>
              /\ lines[1].kind = "header"
              /\ \A j \in 2..Len(lines) :
                    /\ lines[j].kind = "row"
                    /\ lines[j].keys = lines[1].keys
                    /\ Len(lines[j].vals) = Len(lines[1].keys)

\* C1 witness: a file of a two-probe run holds its header and three rows.
C1_Witness ==
    /\ cfg.probes = <<"a", "b">>
    /\ \E f \in DOMAIN files :
          /\ Len(files[f]) = 4
          /\ files[f][1] = HeaderLine(<<"time", "a", "b">>)
          /\ files[f][4] = RowLine(<<"time", "a", "b">>, <<0, 1, 2>>)

\* acquire returned one reading per probe, in declaration order.
FullReadings ==
    /\ ~acq_none
    /\ Len(readings) = NProbes
    /\ \A j \in 1..NProbes : readings[j].probe = j

\* Once a probe has exhausted its retries: acquire has returned None, the
\* aborted cycle has no row, and the loop only moves toward its end.
C2_AfterExhaustion ==
    exhausted = "probe" =>
        /\ acq_none
        /\ rows_written = ite_count
        /\ pc \in {"acquired", "exit", "closed"}

\* A step that writes a row starts from a complete list of readings; a step
\* taken after a probe exhausted its retries reads no probe, writes no row,
\* touches no control and starts no cycle.
C2_Step ==
    /\ rows_written' # rows_written => FullReadings
    /\ exhausted = "probe" =>
          /\ rows_written' = rows_written /\ files' = files
          /\ readings' = readings /\ raised' = raised
          /\ obs' = obs /\ wr' = wr /\ inst' = inst /\ meas_vals' = meas_vals
          /\ ite_count' = ite_count

\* C2 -- No partial row: a row is written in a cycle only if every probe, in
\* declaration order, returned a reading in that cycle; if a probe exhausts
\* its retries, acquire aborts, no row is written for that cycle, no control
\* update is performed and no later cycle is started.
C2_NoPartialRow == [](C2_AfterExhaustion) /\ [][C2_Step]_vars

\* C2 witness: in a two-probe run that completed a cycle, the first probe was
\* read and the second exhausted its retries; the run closed without a row for
\* that cycle.
C2_Witness ==
    /\ cfg.probes = <<"a", "b">> /\ cfg.max_fails = 3
    /\ exhausted = "probe" /\ pc = "closed"
    /\ Len(readings) = 1 /\ raised = <<0, 3>>
    /\ ite_count = 1 /\ rows_written = 1

\* The read attempts made on probe j in the current cycle: those that raised
\* and those that returned a reading.
Attempts(j) == raised[j] + Cardinality({x \in DOMAIN readings : readings[x].probe = j})

ReadingsOf(j) == {x \in DOMAIN readings : readings[x].probe = j}

\* C4 -- Retry recovery: a probe whose read raised k < max_fails times in a
\* row and then succeeded has exactly one reading in the cycle and exactly k
\* logged failures, and acquire has not given up on it (whether or not a
\* signal arrived while it was retried).
C4_RetryRecovery ==
    \A j \in 1..NProbes :
        ReadingsOf(j) # {} =>
            /\ Cardinality(ReadingsOf(j)) = 1
            /\ raised[j] < cfg.max_fails
            /\ logged[j] = raised[j]
            /\ (acq_none \/ exhausted = "probe") => p # j

\* C4 witness: with max_fails = 6 and no signal the probe raised five times,
\* was read at the sixth attempt, and the row of the cycle was written.
C4_Witness ==
    /\ cfg.max_fails = 6 /\ sig.where = "none"
    /\ raised = <<5>> /\ logged = <<5>>
    /\ Len(readings) = 1 /\ ~acq_none /\ exhausted = "none"
    /\ pc = "sleep" /\ rows_written = ite_count + 1

\* The elements of seq that differ from the element before them, last being
\* the value before the first.
RECURSIVE Changes(_, _)
Changes(seq, last) ==
    IF seq = << >> THEN << >>
    ELSE IF Head(seq) # last
    THEN <<Head(seq)>> \o Changes(Tail(seq), Head(seq))
    ELSE Changes(Tail(seq), last)

Front(seq) == SubSeq(seq, 1, Len(seq) - 1)

\* update_controls is in the write loop of control k (an attempt is due, or
\* handle_fail is waiting before the next one).
InWrite(k) ==
    /\ p = k
    /\ pc = "ctl_write" \/ (pc \in {"retry", "backoff"} /\ ret = "ctl_write")

\* The value of control k the loop holds at startup: 0, or the configured
\* initial value.
Initial(k) == IF k = 1 /\ cfg.value # << >> THEN cfg.value[1] ELSE 0

\* The loop ended while a control operation was failing.
ControlAborted == pc \in {"exit", "closed"} /\ (exhausted = "control" \/ kill_now)

\* C5 -- Edge-triggered control writes: the values the instrument of a
\* Control took are exactly the shadow values that differed from the value
\* observed before them (at first the value held at startup), one write per
\* change, the write of the latest change being possibly still under way or
\* given up; a write is attempted only on a value that differs from the one
\* observed before it; in particular, starting from 0, the shadow sequence
\* 5, 5, 5, 7, 7 gives the two writes 5 and 7.
C5_EdgeTriggered ==
    \A k \in 1..cfg.nctl :
        LET ch == Changes(obs[k], Initial(k))
            n  == Len(obs[k])
        IN  /\ IF InWrite(k) THEN ch # << >> /\ wr[k] = Front(ch)
               ELSE IF ControlAborted THEN wr[k] = ch \/ (ch # << >> /\ wr[k] = Front(ch))
               ELSE wr[k] = ch
            /\ InWrite(k) =>
                  /\ n >= 1 /\ value = obs[k][n]
                  /\ value # (IF n = 1 THEN Initial(k) ELSE obs[k][n - 1])
            /\ (Initial(k) = 0 /\ obs[k] = <<5, 5, 5, 7, 7>>
                  /\ ~InWrite(k) /\ ~ControlAborted)
                  => wr[k] = <<5, 7>>

\* C5 witness: five cycles read the shadow values 5, 5, 5, 7, 7 and the
\* instrument took 5, then 7.
C5_Witness ==
    /\ cfg.nctl = 1
    /\ obs[1] = <<5, 5, 5, 7, 7>> /\ wr[1] = <<5, 7>>
    /\ pc = "sleep" /\ rows_written = 5 /\ inst[1] = 7

\* C6 -- Shutdown latency during backoff: once the flag is set while
\* handle_fail is in its long backoff, at most one second passes there and the
\* loop makes no further read attempt, row write, control operation or
\* refresh sleep.
C6_ShutdownDuringBackoff ==
    sig.where = "backoff" =>
        /\ sig.reads = 0 /\ sig.rows = 0 /\ sig.ctl = 0 /\ sig.slept = 0
        /\ sig.secs <= 1

\* C7 -- Shutdown latency is independent of the refresh sleep: when the flag
\* is set during the refresh sleep, the loop has reached its end after about
\* one second (two are allowed here), whatever the refresh rate.
C7_ShutdownDuringSleep ==
    (sig.where = "sleep" /\ pc \in {"exit", "closed"}) => sig.secs <= 2

\* The names of a set of files, in increasing order (the names are timestamps).
RECURSIVE SortedNames(_)
SortedNames(S) ==
    IF S = {} THEN << >>
    ELSE LET m == CHOOSE x \in S : \A y \in S : x <= y
         IN  <<m>> \o SortedNames(S \ {m})

\* The number of data rows of each output file, oldest file first.
RowCounts ==
    LET names == SortedNames(DOMAIN files)
    IN  [j \in 1..Len(names) |-> Len(DataRows(files[names[j]]))]

\* C8 -- Rotation: after n successful iterations with max-row-count m > 0
\* (each wrote its row, no acquisition was abandoned) there are ceil(n/m)
\* output files, all but the last holding m rows (3, 3 and 1 rows for m = 3
\* and n = 7).
C8_Rotation ==
    (pc = "closed" /\ cfg.max_count > 0 /\ ~acq_none
        /\ ite_count >= 1 /\ rows_written = ite_count) =>
        LET m == cfg.max_count
            n == ite_count
            k == CeilDiv(n, m)
        IN  RowCounts = [j \in 1..k |-> IF j < k THEN m ELSE n - m * (k - 1)]

\* C9 -- Unbounded sampling: with sampling_time = 0 and no probe or control
\* exhaustion the loop ends only after a signal; when the flag is raised
\* between two iterations, after N of them, exactly N rows have been written
\* when the sink is closed.
C9_UnboundedSampling ==
    /\ (cfg.time = 0 /\ pc \in {"exit", "closed"} /\ exhausted = "none")
          => sig.where \notin {"none", "exit"}
    /\ (cfg.time = 0 /\ pc = "closed" /\ exhausted = "none" /\ sig.where = "while")
          => rows_written = sig.ite

\* The steps of the program itself: every action but the two of its
\* environment (the signal and the edit of the shadow file).
ProgramStep ==
    \/ Start \/ LoopTest \/ BeginIteration
    \/ ReadOk \/ ReadRaise \/ RetrySleep \/ BackoffSlice \/ SaveReadings
    \/ CtlReadOk \/ CtlReadRaise \/ CtlWriteOk \/ CtlWriteRaise
    \/ SleepTick \/ SleepRaise \/ EndIteration \/ Exit

\* How far the run has come: iterations started, then the place in the
\* iteration, then the probe being read and the seconds slept.
PcRank ==
    CASE pc = "start"     -> 0
      [] pc = "while"     -> 1
      [] pc = "body"      -> 2
      [] pc = "read"      -> 3
      [] pc = "acquired"  -> 4
      [] pc = "ctl_read"  -> 5
      [] pc = "ctl_write" -> 6
      [] pc = "sleep"     -> 7
      [] pc = "exit"      -> 8
      [] OTHER            -> 9
Progress == ite_count * 100 + PcRank * 10 + p + slept

C10_Bounded ==
    (cfg.time > 0 /\ cfg.rate > 0) =>
        LET n == CeilDiv(cfg.time, cfg.rate)
        IN  /\ ite_count <= n + 1 /\ rows_written <= n + 1
            /\ pc # "closed" => ENABLED ProgramStep
            /\ (pc \in {"exit", "closed"} /\ NProbes > 0 /\ ideal /\ sig.where = "none") =>
                  /\ rows_written = ite_count
                  /\ rows_written >= n - 1
                  /\ exhausted = "none"

C10_Step ==
    (cfg.time > 0 /\ cfg.rate > 0 /\ ideal' /\ sig'.where = "none" /\ shadowvars' = shadowvars)
        => Progress' > Progress

\* C10 -- Bounded sampling: with sampling_time T > 0 and refresh rate r > 0 the
\* loop never starts more than ceil(T/r) + 1 iterations and is never stuck
\* before the sink is closed; when every probe read succeeded at once, nothing
\* failed and no signal came, every step of the program brings the run
\* forward, and the loop has ended with one row per iteration and
\* ceil(T/r) - 1 to ceil(T/r) + 1 of them.
C10_BoundedSampling == [](C10_Bounded) /\ [][C10_Step]_vars

\* C10 witness: T = 3 and r = 2 (ceil(T/r) = 2); the ideal run closed after
\* three iterations and three rows, on its time budget.
C10_Witness ==
    /\ cfg.time = 3 /\ cfg.rate = 2 /\ ideal /\ sig.where = "none"
    /\ pc = "closed" /\ status = "completed"
    /\ ite_count = 3 /\ rows_written = 3

\* C11 -- Terminal status is unambiguous (stated for runs with at least one
\* probe): "Requested acquisition time completed" is the status only of a run
\* whose time budget has elapsed, a run that received the signal has the
\* status "DAQ terminated", and a run that ended on the exhaustion of a probe
\* or control has neither.
C11_TerminalStatus ==
    (NProbes > 0 /\ status # "") =>
        /\ status = "completed" => (cfg.time > 0 /\ curr_time - init_time >= cfg.time)
        /\ sig.where # "none" => status = "terminated"
        /\ exhausted # "none" => status \notin {"completed", "terminated"}

\* The loop has left RUNNING: the status line is due, or logged.
Left == pc \in {"exit", "closed"}

\* Where the run stands inside a cycle: the phase of the loop body, then the
\* probe or control at hand, reading before writing, the attempt, and the
\* seconds of a wait.
Phase ==
    CASE pc = "start"    -> 0
      [] pc = "while"    -> 1
      [] pc = "body"     -> 2
      [] pc = "read" \/ (pc \in {"retry", "backoff"} /\ ret = "read") -> 3
      [] pc = "acquired" -> 4
      [] pc \in {"ctl_read", "ctl_write"}
           \/ (pc \in {"retry", "backoff"} /\ ret # "read") -> 5
      [] pc = "sleep"    -> 6
      [] pc = "exit"     -> 7
      [] OTHER           -> 8
Stage == IF pc = "ctl_write" \/ (pc \in {"retry", "backoff"} /\ ret = "ctl_write")
         THEN 1 ELSE 0
Waited == IF pc \in {"retry", "backoff"} THEN 1 + slice ELSE 0
Rank == ite_count * 40000 + Phase * 4096 + p * 1024 + Stage * 512 + i * 64
        + Waited + slept

C12_State ==
    /\ pc = "closed" => (status \in {"completed", "terminated"} /\ ~output.open)
    /\ pc = "exit" => ENABLED Exit
    /\ (exhausted # "none" /\ pc \notin {"acquired", "crashed"}) => Left
    /\ kill_now =>
          /\ ite_count <= sig.ite + 1
          /\ (pc # "closed" /\ now < MaxClock) => ENABLED ProgramStep

C12_Step ==
    /\ Left =>
          /\ pc' = "closed" \/ (pc' = pc /\ status' = status /\ output' = output)
          /\ files' = files /\ rows_written' = rows_written
          /\ readings' = readings /\ raised' = raised /\ craised' = craised
          /\ obs' = obs /\ wr' = wr /\ inst' = inst
    /\ (kill_now /\ shadowvars' = shadowvars) => Rank' > Rank

\* C12 -- Clean end on every exit path: once the loop has left RUNNING, for
\* whatever cause, the next step of the program logs the status line and
\* closes the sink, and no row write, probe read, shadow read or instrument
\* write follows; a closed run has its status line and no open sink.  With the
\* flag set the run is never stuck before it is closed, starts at most the
\* end of the cycle at hand, and every step of the program brings it forward
\* by a bounded measure: it reaches CLOSED.
C12_CleanEnd == [](C12_State) /\ [][C12_Step]_vars

C13_State ==
    kill_now =>
        /\ sig.rows <= 1
        /\ ite_count <= sig.ite + 1
        /\ sig.where \in {"while", "exit"} =>
              (sig.rows = 0 /\ sig.reads = 0 /\ sig.ctl = 0 /\ ite_count = sig.ite)

C13_Step == kill_now => ~(pc = "while" /\ pc' = "body")

\* C13 -- Signal has priority over new work: once the flag is set the loop
\* test never starts another cycle, at most one more row is written (that of
\* the cycle the signal arrived in), and a signal that arrives between two
\* cycles is followed by no read, no row and no control operation.
C13_SignalPriority == [](C13_State) /\ [][C13_Step]_vars

\* C13 witness: the signal arrived while a probe was being read; the cycle
\* wrote its row and the run closed without starting another.
C13_Witness ==
    /\ kill_now /\ sig.where = "read" /\ sig.ite = 1
    /\ sig.rows = 1 /\ rows_written = 2 /\ ite_count = 2
    /\ pc = "closed" /\ status = "terminated"

Last(seq) == seq[Len(seq)]

\* C14 -- Control failure handling: a shadow read or an instrument write that
\* raised max_fails times in a row has ended the loop, the row of the cycle
\* being written and the cycle not counted; the loop ends on a control only
\* so, with one fatal line.  Without a signal, a write that raised fewer
\* times is being retried with the value read from the shadow, or has put
\* that value on the instrument, and has not ended the run.
C14_ControlFailure ==
    \A k \in 1..cfg.nctl :
        /\ craised[k].read <= cfg.max_fails /\ craised[k].set <= cfg.max_fails
        /\ (craised[k].read = cfg.max_fails \/ craised[k].set = cfg.max_fails) =>
              (Left /\ rows_written = ite_count + 1)
        /\ (exhausted = "control" /\ p = k) =>
              /\ craised[k].read = cfg.max_fails \/ craised[k].set = cfg.max_fails
              /\ clogged[k] = craised[k]
              /\ fatal = 1 /\ Left /\ rows_written = ite_count + 1
        /\ (sig.where = "none" /\ craised[k].set > 0 /\ craised[k].set < cfg.max_fails) =>
              /\ exhausted # "control"
              /\ IF InWrite(k) THEN value = Last(obs[k])
                 ELSE wr[k] # << >> /\ Last(wr[k]) = Last(obs[k]) /\ inst[k] = Last(obs[k])

\* C14 witness: with max_fails = 2 and no signal the write of the value 7
\* raised once, was retried, and the instrument took 7; the cycle went on to
\* its refresh sleep.
C14_Witness ==
    /\ cfg.nctl = 1 /\ cfg.max_fails = 2 /\ sig.where = "none"
    /\ pc = "sleep" /\ exhausted = "none"
    /\ craised[1] = [read |-> 0, set |-> 1]
    /\ obs[1] # << >> /\ wr[1] # << >>
    /\ Last(obs[1]) = 7 /\ Last(wr[1]) = 7 /\ inst[1] = 7

\* C15 -- Every failure is logged: in every state of the run, the flag set
\* or not, each probe read, shadow read and instrument write that raised in
\* the cycle has its error entry in the log.
C15_EveryFailureLogged ==
    /\ \A j \in 1..NProbes : logged[j] = raised[j]
    /\ \A k \in 1..cfg.nctl : clogged[k] = craised[k]

\* The file of control k after the set at startup of its initial value.
C16_Setup ==
    (pc = "start" /\ cfg.nctl >= 1 /\ cfg.value # << >>) =>
        (cfg.value[1] # 0 => vfile[1] = <<0, cfg.value[1]>>)

\* The rows a writer is about to put in the file of a control are the rows
\* it found there, followed by one new row.
C16_Step ==
    \A k \in 1..cfg.nctl :
        (wpend[k] = << >> /\ wpend'[k] # << >>) => Front(wpend'[k]) = vfile[k]

\* C16 -- VirtualDevice files are append-only: a set of a new value, by
\* VirtualDevice.set at startup or by the controller script during the run,
\* adds a new last row after the rows already written and changes none of them.
C16_AppendOnly == [](C16_Setup) /\ [][C16_Step]_vars

\* No shadow read has found the file in the middle of an external write, and
\* every value read is the value held at startup or one an external writer set.
C17_State ==
    /\ ~torn
    /\ \A k \in 1..cfg.nctl :
          \A n \in 1..Len(obs[k]) : obs[k][n] \in ShadowVals \cup {Initial(k)}

\* A shadow read that returns gives the last row of the file as it stands:
\* the value before an external write, or the one after it.
C17_Step ==
    \A k \in 1..cfg.nctl :
        obs'[k] # obs[k] => (vfile[k] # << >> /\ Last(obs'[k]) = Last(vfile[k]))

\* C17 -- Lock-free sharing of a VirtualDevice file is benign: whatever the
\* interleaving of an external write with the loop, a shadow read returns the
\* previous or the new value, never an error and never another value.
C17_BenignRace == [](C17_State) /\ [][C17_Step]_vars

\* C18 -- One column per probe: in every output file the header has one key
\* per measurement after "time", every row has 1 + (number of probes) values,
\* and the value in column j + 1 is the reading of the j-th probe.
C18_OneColumnPerProbe ==
    \A f \in DOMAIN files :
        \A n \in 1..Len(files[f]) :
            LET line == files[f][n]
            IN  /\ Len(line.keys) = 1 + NProbes
                /\ line.kind = "row" =>
                      /\ Len(line.vals) = 1 + NProbes
                      /\ \A j \in 1..NProbes : line.vals[j + 1] = j

\* After setup: the instrument, the shadow file and the value last observed
\* all hold the configured initial value of the control.
C19_Setup ==
    (pc = "start" /\ cfg.nctl >= 1 /\ cfg.value # << >>) =>
        /\ inst[1] = cfg.value[1]
        /\ vfile[1] # << >> /\ Last(vfile[1]) = cfg.value[1]
        /\ meas_vals[1] = cfg.value[1]

\* The first shadow read of the run finds the initial value or one set
\* externally since; finding the initial value, it is followed by no
\* instrument write; the instrument keeps the initial value until a
\* write puts another one on it.
C19_FirstCycle ==
    (cfg.nctl >= 1 /\ cfg.value # << >>) =>
        /\ obs[1] # << >> => obs[1][1] \in ShadowVals \cup {cfg.value[1]}
        /\ obs[1] = <<cfg.value[1]>> => (wr[1] = << >> /\ ~InWrite(1))
        /\ wr[1] = << >> => inst[1] = cfg.value[1]

\* C19 -- Startup synchronisation of a Control: with an initial value v
\* configured, setup leaves the instrument, the shadow file and the
\* last-observed value at v, and the first cycle writes nothing to the
\* instrument unless it reads another value from the shadow.
C19_StartupSync == C19_Setup /\ C19_FirstCycle

\* C19 witness: initial value 5; the first cycle read 5 from the shadow, wrote
\* nothing, and went to its refresh sleep with the instrument at 5.
C19_Witness ==
    /\ cfg.nctl = 1 /\ cfg.value = <<5>>
    /\ obs[1] = <<5>> /\ wr[1] = << >> /\ inst[1] = 5
    /\ pc = "sleep" /\ ite_count = 0 /\ rows_written = 1

\* C20 -- Initial value of a power_supply measurement: whether or not the
\* measurement is listed under controls, its configured initial value is on
\* the instrument from setup on, before the first read of the measurement.
C20_InitialValue ==
    (cfg.value # << >> /\ ite_count = 0 /\ pc \in {"start", "while", "body", "read"}) =>
        inst[1] = cfg.value[1]

\* C25 -- Controller target: a controller script that ran to its end without
\* a signal has written at least one value, and the last value it wrote is
\* --value.
C25_Target ==
    (ctrl.pc = "done" /\ ~ctrl.kill_now) =>
        (ctrl.written # << >> /\ Last(ctrl.written) = ctrl.args.value)

\* C26 -- Controller first value: with --step and --start given, the first
\* value the script writes is --start.
C26_FirstValue ==
    (truthy(ctrl.args.step) /\ ctrl.args.start # None /\ ctrl.pc # "parse"
     /\ ctrl.written # << >>)
    => ctrl.written[1] = ctrl.args.start[1]

\* The conversion between two temperature scales, origins included.
affine(mag, from, to) ==
    LET kelvin == CASE from = "K" -> mag
                    [] from = "degC" -> FAdd(mag, <<5463, 20>>)
                    [] from = "degF" -> FMul(FAdd(mag, <<45967, 100>>), <<5, 9>>)
    IN  CASE to = "K" -> kelvin
          [] to = "degC" -> FAdd(kelvin, <<-5463, 20>>)
          [] to = "degF" -> FAdd(FMul(kelvin, <<9, 5>>), <<-45967, 100>>)

\* C22 -- Conversion path selection: a bare number comes out with the target
\* unit and its magnitude untouched; a quantity in another unit of the same
\* dimension comes out in the target unit, its magnitude scaled by the ratio
\* of the units for a non-temperature quantity, and converted between the
\* scales, origins included, for a temperature.
C22_PathSelection ==
    conv.pc = "out" =>
        LET v == conv.value
            u == conv.units
        IN  /\ ~v.quantity => conv.out = [ok |-> TRUE, mag |-> v.mag, units |-> u]
            /\ (v.quantity /\ v.units # u /\ dimension(v.units) = dimension(u)) =>
                  /\ conv.out.ok /\ conv.out.units = u
                  /\ conv.out.mag = IF UnitTemperature(u) THEN affine(v.mag, v.units, u)
                                    ELSE FDiv(FMul(v.mag, factor(v.units)), factor(u))

Highest(seq) == IF seq = << >> THEN 0 ELSE Last(seq)

\* C24 -- Progress messages fire once per boundary: the boundaries reported
\* are at least 1 and strictly increasing, so none is reported twice ...
C24_State ==
    prog.pc = "run" =>
        /\ \A j \in 1..Len(prog.reported) :
              /\ prog.reported[j] >= 1
              /\ j > 1 => prog.reported[j] > prog.reported[j - 1]
        /\ Highest(prog.reported) <= boundary(prog.time, prog.delta_t)

\* ... and a call logs a message exactly when the boundary the elapsed time
\* has reached exceeds the highest boundary reported.
C24_Step ==
    [][prog.pc = "run" =>
          (prog'.logged <=>
              boundary(prog.time, prog'.delta_t) > Highest(prog.reported))]_vars

C24_OncePerBoundary == []C24_State /\ C24_Step

\* C24 witness: in an unbounded run messages were logged for the first and
\* the third five-minute boundary, the elapsed time having jumped over the
\* second, and the last call logged nothing; or, in a bounded run, three
\* deciles were reported, one of them jumped over, and the last call logged
\* nothing.
C24_Witness ==
    \/ prog.pc = "run" /\ prog.time = 0 /\ prog.reported = <<1, 3>> /\ ~prog.logged
    \/ prog.pc = "run" /\ prog.time = 30 /\ prog.reported = <<1, 3, 4>> /\ ~prog.logged

\* C21 -- Configuration errors fail fast: with an instrument of an
\* unsupported type, of an unknown class or with an unsupported protocol in
\* the configuration, setup has raised; no output file exists, no row was
\* written, no cycle was started, and the program takes no step.
C21_FailFast ==
    (\E j \in 1..Len(cfg.instruments) :
        \/ cfg.instruments[j].type \notin inst_types
        \/ cfg.instruments[j].type # "virtual" /\ ~cfg.instruments[j].model
        \/ cfg.instruments[j].type # "virtual" /\ ~cfg.instruments[j].comm)
    => /\ pc = "failed"
       /\ files = << >> /\ rows_written = 0 /\ ite_count = 0
       /\ raised = Zeros(NProbes) /\ status = ""
       /\ ~ENABLED ProgramStep

\* C21 witness: the second instrument is a power supply whose protocol its
\* class cannot open; setup raised after the first was set up.
C21_Witness ==
    /\ cfg.instruments = <<PowerSupply,
                           [type |-> "power_supply", model |-> TRUE, comm |-> FALSE]>>
    /\ pc = "failed" /\ files = << >>

\* C23 -- Refresh sleep is clamped: with a refresh rate of zero or below, a
\* cycle that reached its sleep goes on to the next loop test without
\* waiting and without an error.
C23_ClampedSleep ==
    [][(pc = "sleep" /\ cfg.rate <= 0) =>
          (pc' \in {"sleep", "while"} /\ now' = now)]_vars

\* handle_fail is called in this step: a probe read, a shadow read or an
\* instrument write raised, and the failure is logged.
Called ==
    \/ pc = "read" /\ logged' # logged
    \/ pc \in {"ctl_read", "ctl_write"} /\ clogged' # clogged

\* C28 -- Backoff schedule: called for the k-th consecutive failure of an
\* operation, handle_fail logs the fatal line and returns at once when
\* k = max_fails, a multiple of 5 or not; otherwise it starts the long wait
\* when k is a multiple of 5 and the one-second wait when it is not.  The long
\* wait sleeps one second at a time, only with the flag clear, and ends on
\* the flag or after 60 slices; the short wait is one second.
C28_BackoffSchedule ==
    [][LET k == i + 1
       IN  /\ Called =>
                /\ k >= 1
                /\ pc = "read" => raised'[p] = k
                /\ pc = "ctl_read" => craised'[p].read = k
                /\ pc = "ctl_write" => craised'[p].set = k
                /\ k = cfg.max_fails =>
                      (fatal' = fatal + 1 /\ now' = now /\ pc' \notin {"retry", "backoff"})
                /\ (k # cfg.max_fails /\ k % 5 = 0) =>
                      (fatal' = fatal /\ now' = now /\ pc' = "backoff" /\ slice' = 0)
                /\ (k # cfg.max_fails /\ k % 5 # 0) =>
                      (fatal' = fatal /\ now' = now /\ pc' = "retry")
           /\ pc = "backoff" =>
                /\ k % 5 = 0 /\ k # cfg.max_fails /\ slice <= 60
                /\ now' # now =>
                      (~kill_now /\ slice < 60 /\ now' = now + 1 /\ slice' = slice + 1
                       /\ pc' = "backoff")
                /\ pc' # "backoff" => ((kill_now \/ slice = 60) /\ now' = now)
           /\ pc = "retry" =>
                /\ k % 5 # 0 /\ k # cfg.max_fails
                /\ pc' # "retry" => now' = now + 1
                /\ pc' = "retry" => now' = now]_vars

\* C28 witness: with max_fails = 6 a probe failed five times, the fifth
\* failure was followed by the sixty slices of the long wait, and the sixth
\* attempt is due, 64 seconds into the cycle.
C28_Witness ==
    /\ cfg.max_fails = 6 /\ pc = "read" /\ i = 5 /\ raised[1] = 5
    /\ slice = 60 /\ ~kill_now /\ fatal = 0 /\ now = curr_time + 64

\* C29 -- Failure counters are per operation and reset on success: the
\* attempt counter of the operation at hand counts the failures of that
\* probe, shadow read or instrument write in the cycle at hand and nothing
\* else; and a run has only aborted on failures when one operation failed
\* max_fails times in a row in one cycle.
C29_PerOperation ==
    /\ pc = "read" => i = raised[p]
    /\ pc = "ctl_read" => i = craised[p].read
    /\ pc = "ctl_write" => i = craised[p].set
    /\ (fatal > 0 \/ exhausted # "none") =>
          \/ \E j \in 1..NProbes : raised[j] >= cfg.max_fails
          \/ \E k \in 1..cfg.nctl :
                craised[k].read >= cfg.max_fails \/ craised[k].set >= cfg.max_fails

\* C29 witness: with max_fails = 3, in the second cycle as in the first, two
\* probes failed twice each and then read: four failures in the cycle, more
\* than max_fails, and the row is written with nothing aborted.
C29_Witness ==
    /\ cfg.max_fails = 3 /\ NProbes = 2
    /\ ite_count = 1 /\ rows_written = 2 /\ raised = <<2, 2>>
    /\ pc = "sleep" /\ fatal = 0 /\ exhausted = "none" /\ ~kill_now
    /\ Len(files[0]) = 3

\* The step is an attempt to read a probe, the write of a row, a shadow read
\* or an instrument write (successful or not).
ProbeRead == pc = "read" /\ (readings' # readings \/ raised' # raised)
RowWrite == rows_written' # rows_written
ShadowRead == pc = "ctl_read" /\ (obs' # obs \/ craised' # craised)
InstrumentWrite == pc = "ctl_write" /\ (wr' # wr \/ craised' # craised)

\* C30 -- Step ordering within and across cycles.  Cycles are numbered by
\* ite_count, which never decreases, and the rows written are counted.  Every
\* probe read of cycle n finds n rows written; the row write of cycle n takes
\* the count from n to n + 1, with a reading of every probe at hand; every
\* shadow read and instrument write of cycle n finds n + 1 rows written.  So
\* in a cycle the reads come before the row and the row before the control
\* operations, and those of cycle n before the reads of cycle n + 1.
C30_StepOrdering ==
    [][/\ ite_count' >= ite_count /\ rows_written' >= rows_written
       /\ ProbeRead => (rows_written = ite_count /\ ite_count' = ite_count)
       /\ RowWrite =>
             /\ rows_written = ite_count /\ rows_written' = ite_count + 1
             /\ ite_count' = ite_count
             /\ {readings[j].probe : j \in 1..Len(readings)} = 1..NProbes
       /\ (ShadowRead \/ InstrumentWrite) =>
             (rows_written = ite_count + 1 /\ ite_count' = ite_count
              /\ rows_written' = rows_written)]_vars

\* C30 witness: the second cycle read its probe, wrote its row, read the
\* shadow and wrote the instrument, in that order; the first had done the
\* same before.
C30_Witness ==
    /\ cfg.nctl = 1 /\ ite_count = 1 /\ rows_written = 2
    /\ Len(obs[1]) = 2 /\ Len(wr[1]) = 2
    /\ pc = "sleep"

\* C31 -- The loop leaves RUNNING only for a stated reason: when the loop has
\* been left (the status line is due, or logged), the termination flag is
\* set, or the sampling time is nonzero and reached, or a probe or a control
\* has exhausted its attempts; with probes or without.
C31_StatedReason ==
    pc \in {"exit", "closed"} =>
        \/ kill_now
        \/ cfg.time # 0 /\ curr_time - init_time >= cfg.time
        \/ exhausted # "none"

RECURSIVE Sum(_)
Sum(seq) == IF seq = << >> THEN 0 ELSE Head(seq) + Sum(Tail(seq))

\* C32 -- Rotation loses no data: with row rotation enabled, when the run has
\* ended the data rows of all the output files together are as many as the
\* rows the cycles wrote.
C32_NoDataLost ==
    (pc = "closed" /\ cfg.max_count > 0) => Sum(RowCounts) = rows_written

\* C33 -- No observed set-point change is dropped: while the write of an
\* observed change is under way every attempt is made with the value
\* observed; and whenever the loop goes on to another cycle, the instrument
\* of every control is at the last changed value its shadow reads reported,
\* each change having been written once.
C33_NoChangeDropped ==
    [][\A k \in 1..cfg.nctl :
          /\ (InWrite(k) /\ p' = k /\ pc' \in {"ctl_write", "retry", "backoff"})
                => (value' = value /\ meas_vals'[k] = value)
          /\ ite_count' > ite_count =>
                LET ch == Changes(obs[k], Initial(k))
                IN  /\ wr[k] = ch
                    /\ ch # << >> => (inst[k] = Last(ch) /\ inst'[k] = Last(ch))]_vars

\* C33 witness: the shadow read reported the change to 5, the first write of
\* 5 raised, the second was taken by the instrument, and the cycle went on
\* to its refresh sleep.
C33_Witness ==
    /\ cfg.nctl = 1 /\ cfg.max_fails = 2
    /\ obs[1] = <<5>> /\ craised[1].set = 1 /\ wr[1] = <<5>> /\ inst[1] = 5
    /\ pc = "sleep" /\ ~kill_now

\* C34 -- VirtualDevice set/get round trip: a get that follows a set(v), with
\* nothing in between, returns v, whatever sets and external edits of the
\* file came before.
C34_SetGet ==
    (vdev.pc = "got" /\ vdev.set # << >>) => vdev.got = vdev.set[1]

\* The value the ramp starts from: --start, or else the value of the device
\* when the script was started.
StartingValue ==
    IF ctrl.args.start # None THEN ctrl.args.start[1] ELSE ctrl.dev0

\* C35 -- Controller ramp stays in range: every value the controller script
\* writes lies in the closed interval between the starting value and --value.
C35_RampInRange ==
    ctrl.pc # "off" =>
        \A n \in 1..Len(ctrl.written) :
            LET lo == IF StartingValue < ctrl.args.value THEN StartingValue
                      ELSE ctrl.args.value
                hi == IF StartingValue < ctrl.args.value THEN ctrl.args.value
                      ELSE StartingValue
            IN  lo <= ctrl.written[n] /\ ctrl.written[n] <= hi

\* C36 -- Dashboard stop ordering: when the dashboard removes the virtual
\* device files, neither the DAQ process nor a controller process is alive.
C36_StopOrdering ==
    [][(dash.pc = "remove" /\ dash.devfiles /\ ~dash'.devfiles) =>
          /\ dash.daq \notin {"starting", "running"}
          /\ dash.cont # "running"]_vars

\* C37 -- Dashboard start/stop state: once daq_controller was invoked and is
\* not running, the start button is disabled exactly when a DAQ process id is
\* stored, and the stop button is enabled exactly then.
C37_ButtonsConsistent ==
    (dash.pc = "idle" /\ dash.n > 0) =>
        /\ dash.start_disabled <=> dash.store # << >>
        /\ ~dash.stop_disabled <=> dash.store # << >>

C37_Witness ==
    /\ dash.pc = "idle" /\ dash.n = 3 /\ dash.store = <<2>>
    /\ dash.start_disabled /\ ~dash.stop_disabled
    /\ dash.daq = "running"

====
